---- MODULE Spec2Model ----
(***************************************************************************)
(* Guest memory subsystem (MMU) of the RISC-V emulator: byte-granular      *)
(* permissions, bump allocator, dirty-block tracking, fork and reset.      *)
(*                                                                         *)
(* The operators follow the newest snapshot of the MMU (NewMmu, fork,      *)
(* set_permission, reset, allocate, write_from, read_into_perms,           *)
(* read_into).  Sizes are scaled so that the state space is finite: the    *)
(* host word is WORD_MOD values wide instead of 2^64, a dirty block is     *)
(* DIRTY_BLOCK_SIZE = 4 bytes instead of 4096, the allocator aligns to     *)
(* ALIGN_MASK + 1 = 2 bytes instead of 16, a bitmap word holds BITMAP_WORD *)
(* = 4 bits instead of 64 and the allocator starts at BASE_ALC = 4 instead *)
(* of 0x10000.  The ratios the code relies on are kept: BASE_ALC is a      *)
(* multiple of the alignment and of the block size, the alignment is       *)
(* smaller than a block, a bitmap word covers several blocks.              *)
(*                                                                         *)
(* Every failure of the code is a Go panic, and nothing in the program     *)
(* recovers from one: an operation that fails returns an error result      *)
(* holding the MMU as it was at the panic, and the program stops there.    *)
(* The explicit checks give the error its name; a Go run-time fault (slice *)
(* bounds out of range) is the error "HostFault".                          *)
(***************************************************************************)
EXTENDS Integers, Sequences, FiniteSets, TLC

\* ---- program constants -------------------------------------------------
PERM_READ == 1
PERM_WRITE == 2
PERM_EXEC == 4
PERM_RAW == 8
\* scaled program constants (see the header)
DIRTY_BLOCK_SIZE == 4
ALIGN_MASK == 1
BASE_ALC == 4
BITMAP_WORD == 4
WORD_MOD == 64

\* ---- bounds of the model -----------------------------------------------
ArenaSize == 12
MaxSteps == 3
MaxLen == 3
MaxAlloc == 3
MaxByte == 3
MaxScript == 2

\* ---- unsigned arithmetic and bit operations ----------------------------
\* Go uint addition wraps modulo the host word
Add(a, b) == (a + b) % WORD_MOD

Mul(a, b) == (a * b) % WORD_MOD

RECURSIVE Pow2(_)
Pow2(n) == IF n = 0 THEN 1 ELSE 2 * Pow2(n - 1)

\* bit k (a power of two) of v is set
HasBit(v, k) == (v \div k) % 2 = 1

RECURSIVE AndFrom(_, _, _)
AndFrom(a, b, k) ==
    IF k > 128 THEN 0
    ELSE (IF HasBit(a, k) /\ HasBit(b, k) THEN k ELSE 0) + AndFrom(a, b, 2 * k)

\* a & b on uint8
BitAnd(a, b) == AndFrom(a, b, 1)

RECURSIVE OrFrom(_, _, _)
OrFrom(a, b, k) ==
    IF k > 128 THEN 0
    ELSE (IF HasBit(a, k) \/ HasBit(b, k) THEN k ELSE 0) + OrFrom(a, b, 2 * k)

\* a | b on uint8
BitOr(a, b) == OrFrom(a, b, 1)

\* alignment that keeps the size as it is
align_size_exact(size) == size

\* (size + 0x10) &^ 0xf: the rounding constant is one too large
align_size_pad(size) ==
    LET s == Add(size, ALIGN_MASK + 1)
    IN s - (s % (ALIGN_MASK + 1))

\* (size + 0xf) &^ 0xf
align_size(size) ==
    LET s == Add(size, ALIGN_MASK)
    IN s - (s % (ALIGN_MASK + 1))

\* ---- the MMU -----------------------------------------------------------
\* type Mmu struct.  memory and permissions are indexed by guest address
\* 0 .. size-1; arena names the backing arrays the two slices point to.
NewMmu(size, arena) ==
    [ memory       |-> [i \in 0 .. size - 1 |-> 0],
      permissions  |-> [i \in 0 .. size - 1 |-> 0],
      dirty        |-> << >>,
      dirty_bitmap |-> [w \in 0 .. ((size \div DIRTY_BLOCK_SIZE) \div BITMAP_WORD) |-> 0],
      cur_alc      |-> BASE_ALC,
      arena        |-> arena ]

\* len(m.memory)
MemLen(m) == Cardinality(DOMAIN m.memory)

\* fork that forgets to copy the allocation cursor
fork_base_alc(m, arena) ==
    LET clone == NewMmu(MemLen(m), arena)
    IN [clone EXCEPT !.memory = m.memory,
                     !.permissions = m.permissions]

\* fork that assigns the parent's slices instead of copying them
fork_alias(m, arena) ==
    LET clone == NewMmu(MemLen(m), m.arena)
    IN [clone EXCEPT !.memory = m.memory,
                     !.permissions = m.permissions,
                     !.cur_alc = m.cur_alc]

\* Mmu.fork: a new MMU of the same size, memory and permissions copied into
\* its own arrays, cur_alc copied
fork(m, arena) ==
    LET clone == NewMmu(MemLen(m), arena)
    IN [clone EXCEPT !.memory = m.memory,
                     !.permissions = m.permissions,
                     !.cur_alc = m.cur_alc]

\* set_permission whose loop runs up to and including addr + size
set_permission_incl(m, addr, size, perm) ==
    LET end == Add(addr, size)
    IN IF end > MemLen(m)
       THEN [ok |-> FALSE, err |-> "OutOfBounds", mmu |-> m]
       ELSE [ok |-> TRUE, err |-> "none",
             mmu |-> [m EXCEPT !.permissions =
                        [i \in DOMAIN m.permissions |->
                            IF addr <= i /\ i <= end THEN perm ELSE m.permissions[i]]]]

\* Mmu.set_permission
set_permission(m, addr, size, perm) ==
    LET end == Add(addr, size)
    IN IF end > MemLen(m)
       THEN [ok |-> FALSE, err |-> "OutOfBounds", mmu |-> m]
       ELSE [ok |-> TRUE, err |-> "none",
             mmu |-> [m EXCEPT !.permissions =
                        [i \in DOMAIN m.permissions |->
                            IF addr <= i /\ i < end THEN perm ELSE m.permissions[i]]]]

\* Mmu.allocate
allocate(m, size) ==
    LET aligned == align_size(size)
        base == m.cur_alc
    IN IF Add(base, aligned) >= MemLen(m)
       THEN [ok |-> FALSE, err |-> "OutOfArena", mmu |-> m, base |-> base]
       ELSE LET bumped == [m EXCEPT !.cur_alc = Add(m.cur_alc, aligned)]
                sp == set_permission(bumped, base, size, BitOr(PERM_RAW, PERM_WRITE))
            IN [ok |-> sp.ok, err |-> sp.err, mmu |-> sp.mmu, base |-> base]

\* bit `bit` of bitmap word `word`
WordBit(word, bit) == HasBit(word, Pow2(bit))

\* word | (1 << bit)
WordSet(word, bit) == IF WordBit(word, bit) THEN word ELSE word + Pow2(bit)

\* the dirty loop of write_from: for block := block_start; block < block_end+1
\* The bitmap position is computed from block_start on every iteration.
RECURSIVE DirtyLoop(_, _, _, _)
DirtyLoop(m, block, block_start, block_end) ==
    IF ~(block < block_end + 1) THEN m
    ELSE LET idx == block_start \div BITMAP_WORD
             bit == block_start % BITMAP_WORD
             marked ==
                IF ~WordBit(m.dirty_bitmap[idx], bit)
                THEN [m EXCEPT !.dirty = Append(m.dirty, block),
                               !.dirty_bitmap[idx] = WordSet(m.dirty_bitmap[idx], bit)]
                ELSE m
         IN DirtyLoop(marked, block + 1, block_start, block_end)

\* addresses of [addr, addr+size) lacking a permission bit
Lacking(m, addr, size, bit) ==
    {i \in addr .. addr + size - 1 : ~HasBit(m.permissions[i], bit)}

Min(S) == CHOOSE x \in S : \A y \in S : x <= y

\* copy loop that stops one byte early
copy_in_short(m, addr, buf, n) ==
    [m EXCEPT !.memory =
        [i \in DOMAIN m.memory |->
            IF addr <= i /\ i < addr + n - 1 THEN buf[i - addr + 1] ELSE m.memory[i]]]

\* memory[addr+i] = buf[i] for i < n
copy_in(m, addr, buf, n) ==
    [m EXCEPT !.memory =
        [i \in DOMAIN m.memory |->
            IF addr <= i /\ i < addr + n THEN buf[i - addr + 1] ELSE m.memory[i]]]

\* checks of write_from whose allocator bound also refuses a write that ends
\* at cur_alc
write_error_strict(m, addr, buf, size) ==
    LET end == Add(addr, size)
    IN IF end > MemLen(m) THEN [err |-> "OutOfBounds", fault |-> addr]
       ELSE IF end >= m.cur_alc THEN [err |-> "UnallocatedWrite", fault |-> addr]
       ELSE IF size > Len(buf) THEN [err |-> "BufTooSmall", fault |-> addr]
       ELSE IF addr > end THEN [err |-> "HostFault", fault |-> addr]
       ELSE IF Lacking(m, addr, size, PERM_WRITE) # {}
       THEN [err |-> "WriteDenied", fault |-> Min(Lacking(m, addr, size, PERM_WRITE))]
       ELSE [err |-> "none", fault |-> addr]

\* the checks of write_from, in the order of the code: arena bound,
\* allocator bound, buffer length, the slice of the permissions, the scan
\* for a byte without WRITE (the first one found is the fault)
write_error(m, addr, buf, size) ==
    LET end == Add(addr, size)
    IN IF end > MemLen(m) THEN [err |-> "OutOfBounds", fault |-> addr]
       ELSE IF end > m.cur_alc THEN [err |-> "UnallocatedWrite", fault |-> addr]
       ELSE IF size > Len(buf) THEN [err |-> "BufTooSmall", fault |-> addr]
       ELSE IF addr > end THEN [err |-> "HostFault", fault |-> addr]
       ELSE IF Lacking(m, addr, size, PERM_WRITE) # {}
       THEN [err |-> "WriteDenied", fault |-> Min(Lacking(m, addr, size, PERM_WRITE))]
       ELSE [err |-> "none", fault |-> addr]

\* the scan's has_raw flag
has_raw(m, addr, size) ==
    \E i \in addr .. addr + size - 1 : HasBit(m.permissions[i], PERM_RAW)

\* promotion that gives READ to every byte of the range
raw_promote_all(m, addr, size) ==
    [m EXCEPT !.permissions =
        [i \in DOMAIN m.permissions |->
            IF addr <= i /\ i < addr + size
            THEN BitOr(m.permissions[i], PERM_READ)
            ELSE m.permissions[i]]]

\* "Update RaW bits": every byte of the range with RAW gains READ
raw_promote(m, addr, size) ==
    [m EXCEPT !.permissions =
        [i \in DOMAIN m.permissions |->
            IF addr <= i /\ i < addr + size /\ HasBit(m.permissions[i], PERM_RAW)
            THEN BitOr(m.permissions[i], PERM_READ)
            ELSE m.permissions[i]]]

\* write_from after its checks: copy, dirty tracking, RAW promotion
write_apply(m, addr, buf, size) ==
    LET raw == has_raw(m, addr, size)
        copied == copy_in(m, addr, buf, size)
        block_start == addr \div DIRTY_BLOCK_SIZE
        block_end == Add(addr, Len(buf)) \div DIRTY_BLOCK_SIZE
        tracked == DirtyLoop(copied, block_start, block_start, block_end)
    IN IF raw THEN raw_promote(tracked, addr, size) ELSE tracked

\* write_from that copies each byte as soon as its permission was checked
write_from_partial(m, addr, buf, size) ==
    LET e == write_error(m, addr, buf, size)
    IN IF e.err = "WriteDenied"
       THEN [ok |-> FALSE, err |-> e.err, fault |-> e.fault,
             mmu |-> copy_in(m, addr, buf, e.fault - addr)]
       ELSE IF e.err # "none"
       THEN [ok |-> FALSE, err |-> e.err, mmu |-> m, fault |-> e.fault]
       ELSE [ok |-> TRUE, err |-> "none", mmu |-> write_apply(m, addr, buf, size),
             fault |-> addr]

\* Mmu.write_from
write_from(m, addr, buf, size) ==
    LET e == write_error(m, addr, buf, size)
    IN IF e.err # "none"
       THEN [ok |-> FALSE, err |-> e.err, mmu |-> m, fault |-> e.fault]
       ELSE [ok |-> TRUE, err |-> "none", mmu |-> write_apply(m, addr, buf, size),
             fault |-> addr]

\* read_into_perms that demands READ next to the expected permission
read_into_perms_read(m, addr, blen, exp_perms) ==
    LET end == Add(addr, blen)
        bad == {i \in addr .. end - 1 :
                   \/ BitAnd(m.permissions[i], exp_perms) = 0
                   \/ ~HasBit(m.permissions[i], PERM_READ)}
    IN IF end > MemLen(m)
       THEN [ok |-> FALSE, err |-> "OutOfBounds", out |-> << >>, fault |-> addr]
       ELSE IF addr > end
       THEN [ok |-> FALSE, err |-> "HostFault", out |-> << >>, fault |-> addr]
       ELSE IF bad # {}
       THEN [ok |-> FALSE, err |-> "ReadDenied", out |-> << >>, fault |-> Min(bad)]
       ELSE [ok |-> TRUE, err |-> "none",
             out |-> [i \in 1 .. blen |-> m.memory[addr + i - 1]], fault |-> addr]

\* Mmu.read_into_perms; blen is len(buf)
read_into_perms(m, addr, blen, exp_perms) ==
    LET end == Add(addr, blen)
        bad == {i \in addr .. end - 1 : BitAnd(m.permissions[i], exp_perms) = 0}
    IN IF end > MemLen(m)
       THEN [ok |-> FALSE, err |-> "OutOfBounds", out |-> << >>, fault |-> addr]
       ELSE IF addr > end
       THEN [ok |-> FALSE, err |-> "HostFault", out |-> << >>, fault |-> addr]
       ELSE IF bad # {}
       THEN [ok |-> FALSE, err |-> "ReadDenied", out |-> << >>, fault |-> Min(bad)]
       ELSE [ok |-> TRUE, err |-> "none",
             out |-> [i \in 1 .. blen |-> m.memory[addr + i - 1]], fault |-> addr]

\* read_into that accepts any permission bit
read_into_any(m, addr, blen) ==
    read_into_perms(m, addr, blen, PERM_READ + PERM_WRITE + PERM_EXEC + PERM_RAW)

\* Mmu.read_into
read_into(m, addr, blen) == read_into_perms(m, addr, blen, PERM_READ)

\* the loop of Mmu.reset over m.dirty, from position i of the list.  The
\* slice expressions m.memory[start:end] and orig_mmu.memory[start:end]
\* fault when end exceeds the length of the array.
RECURSIVE ResetLoop(_, _, _)
ResetLoop(m, orig, i) ==
    IF i > Len(m.dirty) THEN [ok |-> TRUE, mmu |-> m]
    ELSE LET block == m.dirty[i]
             start == Mul(block, DIRTY_BLOCK_SIZE)
             end == Mul(block + 1, DIRTY_BLOCK_SIZE)
             w == block \div BITMAP_WORD
         IN IF w \notin DOMAIN m.dirty_bitmap
            THEN [ok |-> FALSE, mmu |-> m]
            ELSE LET zeroed == [m EXCEPT !.dirty_bitmap[w] = 0]
                 IN IF start > end \/ end > MemLen(m) \/ end > MemLen(orig)
                    THEN [ok |-> FALSE, mmu |-> zeroed]
                    ELSE ResetLoop(
                           [zeroed EXCEPT
                              !.memory = [v \in DOMAIN m.memory |->
                                  IF start <= v /\ v < end THEN orig.memory[v]
                                  ELSE m.memory[v]],
                              !.permissions = [v \in DOMAIN m.permissions |->
                                  IF start <= v /\ v < end THEN orig.permissions[v]
                                  ELSE m.permissions[v]]],
                           orig, i + 1)

\* reset that truncates the list and leaves the bitmap as it was
reset_keep_bitmap(m, orig) ==
    LET r == ResetLoop(m, orig, 1)
    IN IF r.ok
       THEN [ok |-> TRUE, err |-> "none",
             mmu |-> [r.mmu EXCEPT !.dirty = << >>, !.dirty_bitmap = m.dirty_bitmap]]
       ELSE [ok |-> FALSE, err |-> "HostFault", mmu |-> r.mmu]

\* reset that also rewinds the allocation cursor to the base
reset_rewind(m, orig) ==
    LET r == ResetLoop(m, orig, 1)
    IN IF r.ok
       THEN [ok |-> TRUE, err |-> "none",
             mmu |-> [r.mmu EXCEPT !.dirty = << >>, !.cur_alc = BASE_ALC]]
       ELSE [ok |-> FALSE, err |-> "HostFault", mmu |-> r.mmu]

\* reset that restores the whole arena, not only the listed blocks
reset_whole(m, orig) ==
    LET r == ResetLoop(m, orig, 1)
    IN IF r.ok
       THEN [ok |-> TRUE, err |-> "none",
             mmu |-> [r.mmu EXCEPT !.dirty = << >>,
                                   !.memory = orig.memory,
                                   !.permissions = orig.permissions]]
       ELSE [ok |-> FALSE, err |-> "HostFault", mmu |-> r.mmu]

\* reset that restores the permissions of the whole arena
reset_permissions_all(m, orig) ==
    LET r == ResetLoop(m, orig, 1)
    IN IF r.ok
       THEN [ok |-> TRUE, err |-> "none",
             mmu |-> [r.mmu EXCEPT !.dirty = << >>, !.permissions = orig.permissions]]
       ELSE [ok |-> FALSE, err |-> "HostFault", mmu |-> r.mmu]

\* Mmu.reset
reset(m, orig) ==
    LET r == ResetLoop(m, orig, 1)
    IN IF r.ok
       THEN [ok |-> TRUE, err |-> "none", mmu |-> [r.mmu EXCEPT !.dirty = << >>]]
       ELSE [ok |-> FALSE, err |-> "HostFault", mmu |-> r.mmu]

\* ---- the program state -------------------------------------------------
VARIABLES
    mmus,       \* the MMUs: the golden parent, its fork, a second fork
    forked,     \* the child exists
    frozen,     \* the parent has not been mutated since the child was forked
    unwritten,  \* per MMU: bytes handed out by allocate, not yet covered by a write
    pristine,   \* as unwritten, also untouched by set_permission and reset
    last,       \* the operation that led to this state, with its result
    steps,      \* number of operations performed
    crashed,    \* a panic ended the program
    script,     \* replay: the operation sequence S
    pc,         \* replay: phase of the run
    idx,        \* replay: position in S
    resA,       \* replay: results of S on the reset fork
    resB        \* replay: results of S on the fresh fork

vars == <<mmus, forked, frozen, unwritten, pristine, last, steps, crashed,
          script, pc, idx, resA, resB>>

replayVars == <<script, pc, idx, resA, resB>>

Names == {"parent", "child", "twin"}

\* one arena identity per make() of memory and permissions
ArenaOf(who) == CASE who = "parent" -> 0 [] who = "child" -> 1 [] OTHER -> 2

\* Assigning mmus[who]: memory and permissions are Go slices, so an MMU
\* whose slices point to the same arrays sees the same bytes.
Store(ms, who, newm) ==
    [w \in Names |->
        IF w = who THEN newm
        ELSE IF ms[w].arena = newm.arena
        THEN [ms[w] EXCEPT !.memory = newm.memory, !.permissions = newm.permissions]
        ELSE ms[w]]

Range(addr, size) == {i \in addr .. addr + size - 1 : TRUE}

\* bytes of the blocks listed in a dirty list
DirtyBytes(m) ==
    {v \in DOMAIN m.memory : \E k \in 1 .. Len(m.dirty) : v \div DIRTY_BLOCK_SIZE = m.dirty[k]}

NoWrite == [valid |-> FALSE, addr |-> 0, buf |-> << >>, pre |-> NewMmu(0, 0)]

NoLast == [op |-> "init", who |-> "parent", addr |-> 0, size |-> 0, perm |-> 0,
           buf |-> << >>, ok |-> TRUE, err |-> "none", base |-> 0, out |-> << >>,
           fault |-> 0, pre |-> NewMmu(0, 0), wr |-> NoWrite, prev |-> "none"]

\* ---- inputs ------------------------------------------------------------
\* lengths of the buffers written and read: empty, one byte and the longest
Lens == {0, 1, MaxLen}

\* write buffers: one per length of Lens, its bytes distinct from their
\* neighbours and from the bytes of the other lengths at the same offset
Bufs == {[i \in 1 .. n |-> ((n + i) % MaxByte) + 1] : n \in Lens}

\* addresses tried by write and read: just below the allocator base, the
\* base, the last byte of the first allocatable block, the start of the
\* next block, the last byte of the arena
Addrs == {BASE_ALC - 1, BASE_ALC, 2 * DIRTY_BLOCK_SIZE - 1, 2 * DIRTY_BLOCK_SIZE,
          ArenaSize - 1}

AllocSizes == {0, 1, MaxAlloc}

PermAddrs == {BASE_ALC - 1, BASE_ALC + 1, ArenaSize - 1}

PermSizes == {2}

PermValues == {PERM_READ, PERM_WRITE}

\* golden parents: a fresh MMU, and the MMU after one or two allocations
Fresh == NewMmu(ArenaSize, ArenaOf("parent"))

Golden == {Fresh,
           allocate(Fresh, 4).mmu,
           allocate(allocate(Fresh, 4).mmu, 2).mmu}

\* bytes with WRITE|RAW and no READ: what allocate handed out on a golden MMU
RawBytes(m) == {v \in DOMAIN m.permissions : m.permissions[v] = BitOr(PERM_RAW, PERM_WRITE)}

\* The program starts with a golden parent; the parent with two allocations
\* may already have been forked.
Init ==
    /\ \E g \in Golden, f \in BOOLEAN :
          /\ f => g.cur_alc = BASE_ALC + 6
          /\ forked = f
          /\ frozen = f
          /\ mmus = [w \in Names |->
                       IF w = "parent" THEN g
                       ELSE IF w = "child" /\ f THEN fork(g, ArenaOf("child"))
                       ELSE NewMmu(0, ArenaOf(w))]
          /\ unwritten = [w \in Names |->
                       IF w = "parent" \/ (w = "child" /\ f) THEN RawBytes(g) ELSE {}]
          /\ pristine = [w \in Names |->
                       IF w = "parent" \/ (w = "child" /\ f) THEN RawBytes(g) ELSE {}]
    /\ last = NoLast
    /\ steps = 0
    /\ crashed = FALSE
    /\ script = << >>
    /\ pc = "main"
    /\ idx = 0
    /\ resA = << >>
    /\ resB = << >>

Active(who) == who = "parent" \/ (who = "child" /\ forked)

CanStep == steps < MaxSteps /\ ~crashed /\ pc = "main"

Allocate(who, size) ==
    /\ CanStep /\ Active(who)
    /\ LET r == allocate(mmus[who], size)
           got == IF r.ok THEN Range(r.base, size) ELSE {}
       IN /\ mmus' = Store(mmus, who, r.mmu)
          /\ unwritten' = [unwritten EXCEPT ![who] = @ \cup got]
          /\ pristine' = [pristine EXCEPT ![who] = @ \cup got]
          /\ last' = [NoLast EXCEPT !.op = "allocate", !.who = who, !.size = size,
                                    !.ok = r.ok, !.err = r.err, !.base = r.base,
                                    !.pre = mmus[who]]
          /\ crashed' = ~r.ok
    /\ frozen' = (frozen /\ mmus'["parent"] = mmus["parent"])
    /\ steps' = steps + 1
    /\ UNCHANGED forked
    /\ UNCHANGED replayVars

Write(who, addr, buf) ==
    /\ CanStep /\ Active(who)
    /\ LET r == write_from(mmus[who], addr, buf, Len(buf))
           hit == IF r.ok THEN Range(addr, Len(buf)) ELSE {}
       IN /\ mmus' = Store(mmus, who, r.mmu)
          /\ unwritten' = [unwritten EXCEPT ![who] = @ \ hit]
          /\ pristine' = [pristine EXCEPT ![who] = @ \ hit]
          /\ last' = [NoLast EXCEPT !.op = "write", !.who = who, !.addr = addr,
                                    !.size = Len(buf), !.buf = buf,
                                    !.ok = r.ok, !.err = r.err, !.fault = r.fault,
                                    !.pre = mmus[who]]
          /\ crashed' = ~r.ok
    /\ frozen' = (frozen /\ mmus'["parent"] = mmus["parent"])
    /\ steps' = steps + 1
    /\ UNCHANGED forked
    /\ UNCHANGED replayVars

Read(who, addr, blen) ==
    /\ CanStep /\ Active(who)
    /\ LET r == read_into(mmus[who], addr, blen)
           after == last.op = "write" /\ last.ok /\ last.who = who
                    /\ last.addr = addr /\ last.size = blen
       IN /\ last' = [NoLast EXCEPT !.op = "read", !.who = who, !.addr = addr,
                                    !.size = blen, !.ok = r.ok, !.err = r.err,
                                    !.out = r.out, !.fault = r.fault,
                                    !.pre = mmus[who],
                                    !.wr = IF after
                                           THEN [valid |-> TRUE, addr |-> last.addr,
                                                 buf |-> last.buf, pre |-> last.pre]
                                           ELSE NoWrite]
          /\ crashed' = ~r.ok
    /\ steps' = steps + 1
    /\ UNCHANGED <<mmus, forked, frozen, unwritten, pristine>>
    /\ UNCHANGED replayVars

SetPermission(who, addr, size, perm) ==
    /\ CanStep /\ Active(who)
    /\ LET r == set_permission(mmus[who], addr, size, perm)
           hit == IF r.ok THEN Range(addr, size) ELSE {}
       IN /\ mmus' = Store(mmus, who, r.mmu)
          /\ pristine' = [pristine EXCEPT ![who] = @ \ hit]
          /\ last' = [NoLast EXCEPT !.op = "set_permission", !.who = who, !.addr = addr,
                                    !.size = size, !.perm = perm,
                                    !.ok = r.ok, !.err = r.err, !.pre = mmus[who]]
          /\ crashed' = ~r.ok
    /\ frozen' = (frozen /\ mmus'["parent"] = mmus["parent"])
    /\ steps' = steps + 1
    /\ UNCHANGED <<forked, unwritten>>
    /\ UNCHANGED replayVars

\* child = parent.fork()
Fork ==
    /\ CanStep
    /\ mmus' = Store(mmus, "child", fork(mmus["parent"], ArenaOf("child")))
    /\ forked' = TRUE
    /\ frozen' = TRUE
    /\ unwritten' = [unwritten EXCEPT !["child"] = unwritten["parent"]]
    /\ pristine' = [pristine EXCEPT !["child"] = pristine["parent"]]
    /\ last' = [NoLast EXCEPT !.op = "fork", !.who = "child", !.pre = mmus["parent"]]
    /\ steps' = steps + 1
    /\ UNCHANGED crashed
    /\ UNCHANGED replayVars

\* child.reset(&parent)
Reset ==
    /\ CanStep /\ forked
    /\ LET r == reset(mmus["child"], mmus["parent"])
       IN /\ mmus' = Store(mmus, "child", r.mmu)
          /\ pristine' = [pristine EXCEPT !["child"] = @ \ DirtyBytes(mmus["child"])]
          /\ last' = [NoLast EXCEPT !.op = "reset", !.who = "child",
                                    !.ok = r.ok, !.err = r.err, !.pre = mmus["child"],
                                    !.prev = IF last.op = "fork" THEN "fork" ELSE "none"]
          /\ crashed' = ~r.ok
    /\ frozen' = (frozen /\ mmus'["parent"] = mmus["parent"])
    /\ steps' = steps + 1
    /\ UNCHANGED <<forked, unwritten>>
    /\ UNCHANGED replayVars

Next ==
    \/ \E who \in {"parent", "child"}, size \in AllocSizes : Allocate(who, size)
    \/ \E who \in {"parent", "child"}, addr \in Addrs, buf \in Bufs : Write(who, addr, buf)
    \/ \E who \in {"parent", "child"}, addr \in Addrs, blen \in Lens : Read(who, addr, blen)
    \/ \E who \in {"parent", "child"}, addr \in PermAddrs, size \in PermSizes, perm \in PermValues :
          SetPermission(who, addr, size, perm)
    \/ Fork
    \/ Reset

Spec == Init /\ [][Next]_vars

\* ---- replay: fork, run S, reset, run S again; a second fork runs S once --
\* the operations a sequence S is made of
ReplayOps ==
    {[op |-> "allocate", addr |-> 0, size |-> n, buf |-> << >>] : n \in {1, MaxAlloc}}
    \cup {[op |-> "write", addr |-> a, size |-> Len(b), buf |-> b] :
             a \in {BASE_ALC, 2 * DIRTY_BLOCK_SIZE - 1}, b \in Bufs \ {<< >>}}
    \cup {[op |-> "read", addr |-> a, size |-> 1, buf |-> << >>] :
             a \in {BASE_ALC, 2 * DIRTY_BLOCK_SIZE}}

\* one operation of S on MMU m: the MMU afterwards and the result the caller sees
ApplyOp(m, o) ==
    IF o.op = "allocate"
    THEN LET r == allocate(m, o.size)
         IN [mmu |-> r.mmu, res |-> [ok |-> r.ok, err |-> r.err, val |-> <<r.base>>]]
    ELSE IF o.op = "write"
    THEN LET r == write_from(m, o.addr, o.buf, Len(o.buf))
         IN [mmu |-> r.mmu, res |-> [ok |-> r.ok, err |-> r.err, val |-> << >>]]
    ELSE LET r == read_into(m, o.addr, o.size)
         IN [mmu |-> m, res |-> [ok |-> r.ok, err |-> r.err, val |-> r.out]]

\* golden MMUs M: the golden parents, and one that has written a byte
GoldenReplay ==
    Golden \cup {write_from(allocate(allocate(Fresh, 4).mmu, 2).mmu,
                            2 * DIRTY_BLOCK_SIZE, <<1>>, 1).mmu}

InitReplay ==
    /\ \E g \in GoldenReplay :
          mmus = [w \in Names |-> IF w = "parent" THEN g ELSE fork(g, ArenaOf(w))]
    /\ forked = TRUE
    /\ frozen = TRUE
    /\ unwritten = [w \in Names |-> {}]
    /\ pristine = [w \in Names |-> {}]
    /\ last = NoLast
    /\ steps = 0
    /\ crashed = FALSE
    /\ script = << >>
    /\ pc = "first"
    /\ idx = 0
    /\ resA = << >>
    /\ resB = << >>

mainVars == <<forked, frozen, unwritten, pristine, last, steps>>

\* first run: the fork performs one more operation of S; a panic ends the program
RunFirst(o) ==
    /\ pc = "first" /\ Len(script) < MaxScript
    /\ LET r == ApplyOp(mmus["child"], o)
       IN /\ mmus' = Store(mmus, "child", r.mmu)
          /\ script' = Append(script, o)
          /\ pc' = IF r.res.ok THEN "first" ELSE "crashed"
          /\ crashed' = ~r.res.ok
    /\ UNCHANGED <<idx, resA, resB>>
    /\ UNCHANGED mainVars

\* the fork is reset against M
ResetFork ==
    /\ pc = "first" /\ Len(script) >= 1
    /\ LET r == reset(mmus["child"], mmus["parent"])
       IN /\ mmus' = Store(mmus, "child", r.mmu)
          /\ pc' = IF r.ok THEN "second" ELSE "crashed"
          /\ crashed' = ~r.ok
    /\ idx' = 1
    /\ UNCHANGED <<script, resA, resB>>
    /\ UNCHANGED mainVars

\* second run: the reset fork and the fresh fork each perform operation idx of S
RunSecond ==
    /\ pc = "second" /\ idx <= Len(script)
    /\ LET a == ApplyOp(mmus["child"], script[idx])
           b == ApplyOp(mmus["twin"], script[idx])
       IN /\ mmus' = Store(Store(mmus, "child", a.mmu), "twin", b.mmu)
          /\ resA' = Append(resA, a.res)
          /\ resB' = Append(resB, b.res)
          /\ pc' = IF idx = Len(script) \/ ~a.res.ok \/ ~b.res.ok THEN "done" ELSE "second"
    /\ idx' = idx + 1
    /\ UNCHANGED <<script, crashed>>
    /\ UNCHANGED mainVars

NextReplay ==
    \/ \E o \in ReplayOps : RunFirst(o)
    \/ ResetFork
    \/ RunSecond

SpecReplay == InitReplay /\ [][NextReplay]_vars

\* ---- the allocator over the whole word range ---------------------------
\* arena sizes given to NewMmu: below the allocator base, the base itself,
\* and the arena of the other specifications
AllocArenas == {BASE_ALC - 1, BASE_ALC, ArenaSize}

\* sizes given to allocate: small ones, and the ones near the top of the
\* host word, for which size + ALIGN_MASK or cur_alc + align_size wraps
WordSizes == {0, 1, 2, MaxAlloc,
              WORD_MOD - BASE_ALC - 1, WORD_MOD - BASE_ALC, WORD_MOD - 2, WORD_MOD - 1}

\* addresses written and read: the first allocated byte and the byte after it
AllocAddrs == {BASE_ALC, BASE_ALC + 1}

InitAlloc ==
    /\ \E a \in AllocArenas :
          mmus = [w \in Names |->
                    IF w = "parent" THEN NewMmu(a, ArenaOf(w)) ELSE NewMmu(0, ArenaOf(w))]
    /\ forked = FALSE
    /\ frozen = FALSE
    /\ unwritten = [w \in Names |-> {}]
    /\ pristine = [w \in Names |-> {}]
    /\ last = NoLast
    /\ steps = 0
    /\ crashed = FALSE
    /\ script = << >>
    /\ pc = "main"
    /\ idx = 0
    /\ resA = << >>
    /\ resB = << >>

NextAlloc ==
    \/ \E who \in {"parent", "child"}, size \in WordSizes : Allocate(who, size)
    \/ \E who \in {"parent", "child"}, addr \in AllocAddrs, buf \in Bufs : Write(who, addr, buf)
    \/ \E who \in {"parent", "child"}, addr \in AllocAddrs, blen \in Lens : Read(who, addr, blen)
    \/ Fork
    \/ Reset

SpecAlloc == InitAlloc /\ [][NextAlloc]_vars

\* ---- scenario: the parent allocates a range and writes it or not, the ----
\* child is forked, writes the range, reads it back, is reset and reads again
\* sizes of the range: one byte, one block, more than a block
ScenSizes == {1, DIRTY_BLOCK_SIZE, DIRTY_BLOCK_SIZE + 2}

\* what the parent allocates before the range, to move the base of the range
ScenPads == {0, 1, MaxAlloc}

\* n bytes of data; data of different k differ at every offset
ScenData(n, k) == [i \in 1 .. n |-> ((i + k) % MaxByte) + 1]

ScenKinds == {0, 1}

InitScenario ==
    /\ mmus = [w \in Names |-> IF w = "parent" THEN Fresh ELSE NewMmu(0, ArenaOf(w))]
    /\ forked = FALSE
    /\ frozen = FALSE
    /\ unwritten = [w \in Names |-> {}]
    /\ pristine = [w \in Names |-> {}]
    /\ last = NoLast
    /\ steps = 0
    /\ crashed = FALSE
    /\ script = << >>
    /\ pc = "p_pad"
    /\ idx = 0
    /\ resA = << >>
    /\ resB = << >>

scenVars == <<unwritten, pristine, last, steps, idx>>

\* the range of the scenario
ScenRange == script[1]

\* parent: allocate(pad)
ParentPads(pad) ==
    /\ pc = "p_pad"
    /\ LET r == allocate(mmus["parent"], pad)
       IN /\ mmus' = Store(mmus, "parent", r.mmu)
          /\ pc' = IF r.ok THEN "p_alloc" ELSE "crashed"
          /\ crashed' = ~r.ok
    /\ UNCHANGED <<forked, frozen, script, resA, resB>>
    /\ UNCHANGED scenVars

\* parent: a = allocate(n)
ParentAllocates(n) ==
    /\ pc = "p_alloc"
    /\ LET r == allocate(mmus["parent"], n)
       IN /\ mmus' = Store(mmus, "parent", r.mmu)
          /\ script' = <<[op |-> "range", addr |-> r.base, size |-> n, buf |-> << >>]>>
          /\ pc' = IF r.ok THEN "p_write" ELSE "crashed"
          /\ crashed' = ~r.ok
    /\ UNCHANGED <<forked, frozen, resA, resB>>
    /\ UNCHANGED scenVars

\* parent: write(a, data)
ParentWrites(k) ==
    /\ pc = "p_write"
    /\ LET r == write_from(mmus["parent"], ScenRange.addr,
                           ScenData(ScenRange.size, k), ScenRange.size)
       IN /\ mmus' = Store(mmus, "parent", r.mmu)
          /\ pc' = IF r.ok THEN "p_written" ELSE "crashed"
          /\ crashed' = ~r.ok
    /\ UNCHANGED <<forked, frozen, script, resA, resB>>
    /\ UNCHANGED scenVars

\* child = parent.fork(), after the parent's write or without one
ForkChild ==
    /\ pc \in {"p_write", "p_written"}
    /\ mmus' = Store(mmus, "child", fork(mmus["parent"], ArenaOf("child")))
    /\ forked' = TRUE
    /\ frozen' = TRUE
    /\ pc' = "c_write"
    /\ UNCHANGED <<crashed, script, resA, resB>>
    /\ UNCHANGED scenVars

\* child: write(a, data)
ChildWrites(k) ==
    /\ pc = "c_write"
    /\ LET d == ScenData(ScenRange.size, k)
           r == write_from(mmus["child"], ScenRange.addr, d, ScenRange.size)
       IN /\ mmus' = Store(mmus, "child", r.mmu)
          /\ script' = <<[ScenRange EXCEPT !.buf = d]>>
          /\ pc' = IF r.ok THEN "c_read" ELSE "crashed"
          /\ crashed' = ~r.ok
    /\ UNCHANGED <<forked, frozen, resA, resB>>
    /\ UNCHANGED scenVars

\* child: read(a, out) after its write
ChildReadsBack ==
    /\ pc = "c_read"
    /\ LET r == read_into(mmus["child"], ScenRange.addr, ScenRange.size)
       IN /\ resA' = <<[ok |-> r.ok, err |-> r.err, val |-> r.out]>>
          /\ pc' = IF r.ok THEN "c_reset" ELSE "crashed"
          /\ crashed' = ~r.ok
    /\ UNCHANGED <<mmus, forked, frozen, script, resB>>
    /\ UNCHANGED scenVars

\* child.reset(&parent)
ChildResets ==
    /\ pc = "c_reset"
    /\ LET r == reset(mmus["child"], mmus["parent"])
       IN /\ mmus' = Store(mmus, "child", r.mmu)
          /\ pc' = IF r.ok THEN "c_reread" ELSE "crashed"
          /\ crashed' = ~r.ok
    /\ UNCHANGED <<forked, frozen, script, resA, resB>>
    /\ UNCHANGED scenVars

\* child: read(a, out) after the reset
ChildRereads ==
    /\ pc = "c_reread"
    /\ LET r == read_into(mmus["child"], ScenRange.addr, ScenRange.size)
       IN /\ resB' = <<[ok |-> r.ok, err |-> r.err, val |-> r.out]>>
          /\ crashed' = ~r.ok
    /\ pc' = "done"
    /\ UNCHANGED <<mmus, forked, frozen, script, resA>>
    /\ UNCHANGED scenVars

NextScenario ==
    \/ \E pad \in ScenPads : ParentPads(pad)
    \/ \E n \in ScenSizes : ParentAllocates(n)
    \/ \E k \in ScenKinds : ParentWrites(k)
    \/ ForkChild
    \/ \E k \in ScenKinds : ChildWrites(k)
    \/ ChildReadsBack
    \/ ChildResets
    \/ ChildRereads

SpecScenario == InitScenario /\ [][NextScenario]_vars

\* ---- permissions: set_permission over the word range, reads under a mask --
\* start addresses given to set_permission, read and read_with
MaskAddrs == {BASE_ALC, BASE_ALC + 1}

\* sizes given to set_permission: inside the arena, up to or past its end,
\* and near the top of the host word, where addr + size wraps
MaskSizes == {0, 1, 2, ArenaSize - BASE_ALC,
              WORD_MOD - BASE_ALC - 2, WORD_MOD - BASE_ALC, WORD_MOD - 1}

\* permission values installed and masks required
Masks == {PERM_READ, PERM_EXEC, PERM_READ + PERM_EXEC}

\* lengths of the buffers read
MaskLens == {1, 2}

\* golden MMUs: a fresh one, and one with an allocation holding written bytes
GoldenMask ==
    {Fresh, write_from(allocate(Fresh, 4).mmu, BASE_ALC, <<2, 3, 1>>, 3).mmu}

InitMask ==
    /\ \E g \in GoldenMask :
          mmus = [w \in Names |-> IF w = "parent" THEN g ELSE NewMmu(0, ArenaOf(w))]
    /\ forked = FALSE
    /\ frozen = FALSE
    /\ unwritten = [w \in Names |-> {}]
    /\ pristine = [w \in Names |-> {}]
    /\ last = NoLast
    /\ steps = 0
    /\ crashed = FALSE
    /\ script = << >>
    /\ pc = "main"
    /\ idx = 0
    /\ resA = << >>
    /\ resB = << >>

\* read_into_perms(addr, buf, exp_perms) with len(buf) = blen
ReadWith(who, addr, blen, mask) ==
    /\ CanStep /\ Active(who)
    /\ LET r == read_into_perms(mmus[who], addr, blen, mask)
       IN /\ last' = [NoLast EXCEPT !.op = "read_with", !.who = who, !.addr = addr,
                                    !.size = blen, !.perm = mask,
                                    !.ok = r.ok, !.err = r.err,
                                    !.out = r.out, !.fault = r.fault,
                                    !.pre = mmus[who]]
          /\ crashed' = ~r.ok
    /\ steps' = steps + 1
    /\ UNCHANGED <<mmus, forked, frozen, unwritten, pristine>>
    /\ UNCHANGED replayVars

NextMask ==
    \/ \E addr \in MaskAddrs, size \in MaskSizes, perm \in Masks :
          SetPermission("parent", addr, size, perm)
    \/ \E addr \in MaskAddrs, blen \in MaskLens, mask \in Masks :
          ReadWith("parent", addr, blen, mask)
    \/ \E addr \in MaskAddrs, blen \in MaskLens : Read("parent", addr, blen)

SpecMask == InitMask /\ [][NextMask]_vars

\* ---- the loader: Emulator.load on a new emulator -------------------------
\* virtual addresses of the sections: the start of the arena, two bytes below
\* the allocator base, the allocator base
SectionAddrs == {0, BASE_ALC - 2, BASE_ALC}

\* mem_size - file_size: no padding, one byte of padding
SectionPads == {0, 1}

\* permissions of a section
SectionPerms == {PERM_READ, PERM_READ + PERM_EXEC}

\* the sections: section_data is the slice of the file, of file_size bytes
Sections ==
    {[virt_addr |-> a, section_data |-> b, mem_size |-> Len(b) + d, permissions |-> p] :
        a \in SectionAddrs, b \in Bufs, d \in SectionPads, p \in SectionPerms}

\* the section lists given to load: one section, or two sections the second
\* of which has file bytes and no padding
SectionLists ==
    {<<x>> : x \in Sections}
    \cup {<<x, y>> : x \in Sections,
                     y \in {z \in Sections : z.mem_size = 1 /\ z.section_data # << >>}}

InitLoad ==
    /\ mmus = [w \in Names |-> IF w = "parent" THEN Fresh ELSE NewMmu(0, ArenaOf(w))]
    /\ forked = FALSE
    /\ frozen = FALSE
    /\ unwritten = [w \in Names |-> {}]
    /\ pristine = [w \in Names |-> {}]
    /\ last = NoLast
    /\ steps = 0
    /\ crashed = FALSE
    /\ script \in SectionLists
    /\ pc = "l_perm"
    /\ idx = 1
    /\ resA = << >>
    /\ resB = << >>

loadVars == <<forked, frozen, unwritten, pristine, steps, resA, resB, script>>

\* the section being loaded
section == script[idx]

\* load: set_permission(virt_addr, mem_size, PERM_WRITE)
LoadSetWritable ==
    /\ pc = "l_perm"
    /\ LET r == set_permission(mmus["parent"], section.virt_addr, section.mem_size,
                               PERM_WRITE)
       IN /\ mmus' = Store(mmus, "parent", r.mmu)
          /\ last' = [NoLast EXCEPT !.op = "load_writable", !.ok = r.ok, !.err = r.err,
                                    !.pre = mmus["parent"]]
          /\ pc' = IF r.ok THEN "l_write" ELSE "crashed"
          /\ crashed' = ~r.ok
    /\ UNCHANGED idx
    /\ UNCHANGED loadVars

\* load: write_from(virt_addr, section_data)
LoadWriteFile ==
    /\ pc = "l_write"
    /\ LET r == write_from(mmus["parent"], section.virt_addr, section.section_data,
                           Len(section.section_data))
       IN /\ mmus' = Store(mmus, "parent", r.mmu)
          /\ last' = [NoLast EXCEPT !.op = "load_file", !.ok = r.ok, !.err = r.err,
                                    !.pre = mmus["parent"]]
          /\ pc' = IF ~r.ok THEN "crashed"
                   ELSE IF section.mem_size > Len(section.section_data) THEN "l_pad"
                   ELSE "l_final"
          /\ crashed' = ~r.ok
    /\ UNCHANGED idx
    /\ UNCHANGED loadVars

\* load: write_from(virt_addr + file_size, padding), padding being
\* mem_size - file_size zero bytes
LoadWritePadding ==
    /\ pc = "l_pad"
    /\ LET file_size == Len(section.section_data)
           padding == [i \in 1 .. section.mem_size - file_size |-> 0]
           r == write_from(mmus["parent"], Add(section.virt_addr, file_size), padding,
                           Len(padding))
       IN /\ mmus' = Store(mmus, "parent", r.mmu)
          /\ last' = [NoLast EXCEPT !.op = "load_padding", !.ok = r.ok, !.err = r.err,
                                    !.pre = mmus["parent"]]
          /\ pc' = IF r.ok THEN "l_final" ELSE "crashed"
          /\ crashed' = ~r.ok
    /\ UNCHANGED idx
    /\ UNCHANGED loadVars

\* load: set_permission(virt_addr, mem_size, section.permissions), then the
\* next section
LoadSetFinal ==
    /\ pc = "l_final"
    /\ LET r == set_permission(mmus["parent"], section.virt_addr, section.mem_size,
                               section.permissions)
       IN /\ mmus' = Store(mmus, "parent", r.mmu)
          /\ last' = [NoLast EXCEPT !.op = "load_final", !.ok = r.ok, !.err = r.err,
                                    !.addr = section.virt_addr,
                                    !.size = section.mem_size,
                                    !.buf = section.section_data,
                                    !.perm = section.permissions,
                                    !.pre = mmus["parent"]]
          /\ pc' = IF ~r.ok THEN "crashed"
                   ELSE IF idx = Len(script) THEN "loaded" ELSE "l_perm"
          /\ idx' = IF r.ok /\ idx < Len(script) THEN idx + 1 ELSE idx
          /\ crashed' = ~r.ok
    /\ UNCHANGED loadVars

NextLoad ==
    \/ LoadSetWritable
    \/ LoadWriteFile
    \/ LoadWritePadding
    \/ LoadSetFinal

SpecLoad == InitLoad /\ [][NextLoad]_vars

\* ---- arenas of other sizes: a partial last block, a reset against an MMU --
\* of another size
\* arena sizes of the parent: four whole blocks, three blocks and a partial one
WholeArena == 4 * DIRTY_BLOCK_SIZE

PartialArena == 3 * DIRTY_BLOCK_SIZE + 3

\* arena sizes of the other MMU: smaller than the parents, larger than them
OtherArenas == {2 * DIRTY_BLOCK_SIZE, 3 * DIRTY_BLOCK_SIZE + 1, 5 * DIRTY_BLOCK_SIZE}

\* the parent: a new MMU with one allocation of two blocks, which ends where
\* the last block starts
GoldenArena(size) == allocate(NewMmu(size, ArenaOf("parent")), 2 * DIRTY_BLOCK_SIZE).mmu

\* sizes the child allocates
ArenaAllocs == {1, 2}

\* addresses written by the child: the start and the end of the last block
\* of the parent's allocation, the start of the last block of the arena
ArenaAddrs == {2 * DIRTY_BLOCK_SIZE, 3 * DIRTY_BLOCK_SIZE - 1, 3 * DIRTY_BLOCK_SIZE}

\* the parent, its fork, and an MMU of another size
InitArena ==
    /\ \E size \in {WholeArena, PartialArena}, other \in OtherArenas :
          mmus = [w \in Names |->
                    IF w = "parent" THEN GoldenArena(size)
                    ELSE IF w = "child" THEN fork(GoldenArena(size), ArenaOf("child"))
                    ELSE NewMmu(other, ArenaOf("twin"))]
    /\ forked = TRUE
    /\ frozen = TRUE
    /\ unwritten = [w \in Names |-> {}]
    /\ pristine = [w \in Names |-> {}]
    /\ last = NoLast
    /\ steps = 0
    /\ crashed = FALSE
    /\ script = << >>
    /\ pc = "main"
    /\ idx = 0
    /\ resA = << >>
    /\ resB = << >>

\* child.reset(&other), other being the MMU of another size
ResetOther ==
    /\ CanStep /\ forked
    /\ LET r == reset(mmus["child"], mmus["twin"])
       IN /\ mmus' = Store(mmus, "child", r.mmu)
          /\ last' = [NoLast EXCEPT !.op = "reset_other", !.who = "child",
                                    !.ok = r.ok, !.err = r.err, !.pre = mmus["child"]]
          /\ crashed' = ~r.ok
    /\ frozen' = (frozen /\ mmus'["parent"] = mmus["parent"])
    /\ steps' = steps + 1
    /\ UNCHANGED <<forked, unwritten, pristine>>
    /\ UNCHANGED replayVars

NextArena ==
    \/ \E size \in ArenaAllocs : Allocate("child", size)
    \/ \E addr \in ArenaAddrs, buf \in Bufs : Write("child", addr, buf)
    \/ Reset
    \/ ResetOther

SpecArena == InitArena /\ [][NextArena]_vars

\* ---- concurrent resets: two forks of one parent run reset(&parent), each --
\* in its own goroutine, one statement of the loop body at a time
Workers == {"child", "twin"}

\* arena of the shared parent: four whole blocks
ConcArena == 4 * DIRTY_BLOCK_SIZE

\* the shared parent: one allocation, its first bytes written
ConcParent ==
    write_from(allocate(NewMmu(ConcArena, ArenaOf("parent")), ConcArena - BASE_ALC - 2).mmu,
               BASE_ALC, <<2, 3, 1>>, 3).mmu

\* what a fork wrote before its reset: one or two writes at the start of a block
ConcAddrs == {BASE_ALC, 2 * DIRTY_BLOCK_SIZE}

ConcWrites ==
    LET W == {<<a, b>> : a \in ConcAddrs, b \in Bufs \ {<< >>}}
    IN {<<x>> : x \in W} \cup {<<x, y>> : x \in W, y \in W}

\* the fork after its writes
RECURSIVE AfterWrites(_, _, _)
AfterWrites(m, ws, i) ==
    IF i > Len(ws) THEN m
    ELSE AfterWrites(write_from(m, ws[i][1], ws[i][2], Len(ws[i][2])).mmu, ws, i + 1)

\* reset, first statement of the loop body: m.dirty_bitmap[block/64] = 0
reset_bitmap(m, orig, block) ==
    LET w == block \div BITMAP_WORD
    IN IF w \notin DOMAIN m.dirty_bitmap
       THEN [ok |-> FALSE, mmu |-> m, orig |-> orig]
       ELSE [ok |-> TRUE, mmu |-> [m EXCEPT !.dirty_bitmap[w] = 0], orig |-> orig]

\* a copy that restores the block and leaves a mark in the source
reset_memory_mark(m, orig, block) ==
    LET start == Mul(block, DIRTY_BLOCK_SIZE)
        end == Mul(block + 1, DIRTY_BLOCK_SIZE)
    IN IF start > end \/ end > MemLen(m) \/ end > MemLen(orig)
       THEN [ok |-> FALSE, mmu |-> m, orig |-> orig]
       ELSE [ok |-> TRUE,
             mmu |-> [m EXCEPT !.memory = [v \in DOMAIN m.memory |->
                         IF start <= v /\ v < end THEN orig.memory[v] ELSE m.memory[v]]],
             orig |-> [orig EXCEPT !.dirty = Append(orig.dirty, block)]]

\* reset: copy(m.memory[start:end], orig_mmu.memory[start:end])
reset_memory(m, orig, block) ==
    LET start == Mul(block, DIRTY_BLOCK_SIZE)
        end == Mul(block + 1, DIRTY_BLOCK_SIZE)
    IN IF start > end \/ end > MemLen(m) \/ end > MemLen(orig)
       THEN [ok |-> FALSE, mmu |-> m, orig |-> orig]
       ELSE [ok |-> TRUE,
             mmu |-> [m EXCEPT !.memory = [v \in DOMAIN m.memory |->
                         IF start <= v /\ v < end THEN orig.memory[v] ELSE m.memory[v]]],
             orig |-> orig]

\* reset: copy(m.permissions[start:end], orig_mmu.permissions[start:end])
reset_permissions(m, orig, block) ==
    LET start == Mul(block, DIRTY_BLOCK_SIZE)
        end == Mul(block + 1, DIRTY_BLOCK_SIZE)
    IN IF start > end \/ end > MemLen(m) \/ end > MemLen(orig)
       THEN [ok |-> FALSE, mmu |-> m, orig |-> orig]
       ELSE [ok |-> TRUE,
             mmu |-> [m EXCEPT !.permissions = [v \in DOMAIN m.permissions |->
                         IF start <= v /\ v < end THEN orig.permissions[v]
                         ELSE m.permissions[v]]],
             orig |-> orig]

\* Both forks have written and are about to reset.  script keeps the parent,
\* resA and resB keep the forks as they are before their resets.
InitConc ==
    /\ \E wa \in ConcWrites, wb \in ConcWrites :
          LET a == AfterWrites(fork(ConcParent, ArenaOf("child")), wa, 1)
              b == AfterWrites(fork(ConcParent, ArenaOf("twin")), wb, 1)
          IN /\ mmus = [w \in Names |->
                          IF w = "parent" THEN ConcParent ELSE IF w = "child" THEN a ELSE b]
             /\ resA = <<a>>
             /\ resB = <<b>>
    /\ script = <<ConcParent>>
    /\ forked = TRUE
    /\ frozen = TRUE
    /\ unwritten = [w \in Names |-> {}]
    /\ pristine = [w \in Names |-> {}]
    /\ last = NoLast
    /\ steps = 0
    /\ crashed = FALSE
    /\ pc = [w \in Workers |-> "loop"]
    /\ idx = [w \in Workers |-> 1]

concVars == <<forked, frozen, unwritten, pristine, last, steps, script, resA, resB>>

\* what one statement of worker w leaves: its MMU, the parent it was given
ConcStore(w, r) == Store(Store(mmus, w, r.mmu), "parent", r.orig)

\* for _, block := range m.dirty: the next block, and the bitmap word zeroed
ResetBegin(w) ==
    /\ pc[w] = "loop" /\ idx[w] <= Len(mmus[w].dirty)
    /\ LET r == reset_bitmap(mmus[w], mmus["parent"], mmus[w].dirty[idx[w]])
       IN /\ mmus' = ConcStore(w, r)
          /\ pc' = [pc EXCEPT ![w] = IF r.ok THEN "memory" ELSE "crashed"]
          /\ crashed' = (crashed \/ ~r.ok)
    /\ UNCHANGED idx
    /\ UNCHANGED concVars

ResetMemory(w) ==
    /\ pc[w] = "memory"
    /\ LET r == reset_memory(mmus[w], mmus["parent"], mmus[w].dirty[idx[w]])
       IN /\ mmus' = ConcStore(w, r)
          /\ pc' = [pc EXCEPT ![w] = IF r.ok THEN "permissions" ELSE "crashed"]
          /\ crashed' = (crashed \/ ~r.ok)
    /\ UNCHANGED idx
    /\ UNCHANGED concVars

ResetPermissions(w) ==
    /\ pc[w] = "permissions"
    /\ LET r == reset_permissions(mmus[w], mmus["parent"], mmus[w].dirty[idx[w]])
       IN /\ mmus' = ConcStore(w, r)
          /\ pc' = [pc EXCEPT ![w] = IF r.ok THEN "loop" ELSE "crashed"]
          /\ crashed' = (crashed \/ ~r.ok)
    /\ idx' = [idx EXCEPT ![w] = @ + 1]
    /\ UNCHANGED concVars

\* after the loop: m.dirty = m.dirty[:0]
ResetClear(w) ==
    /\ pc[w] = "loop" /\ idx[w] > Len(mmus[w].dirty)
    /\ mmus' = Store(mmus, w, [mmus[w] EXCEPT !.dirty = << >>])
    /\ pc' = [pc EXCEPT ![w] = "done"]
    /\ UNCHANGED <<idx, crashed>>
    /\ UNCHANGED concVars

NextConc ==
    \/ \E w \in Workers : ResetBegin(w)
    \/ \E w \in Workers : ResetMemory(w)
    \/ \E w \in Workers : ResetPermissions(w)
    \/ \E w \in Workers : ResetClear(w)

SpecConc == InitConc /\ [][NextConc]_vars

\* ---- the dirty list between two resets -----------------------------------
\* the parent: a new MMU of four blocks with one allocation that ends in the
\* last block
DirtyParent == allocate(NewMmu(WholeArena, ArenaOf("parent")), 2 * DIRTY_BLOCK_SIZE + 2).mmu

\* addresses written by the child: the start of the first allocated block, its
\* last byte, the start of the next block and of the last block
DirtyAddrs == {BASE_ALC, 2 * DIRTY_BLOCK_SIZE - 1, 2 * DIRTY_BLOCK_SIZE,
               3 * DIRTY_BLOCK_SIZE}

\* the blocks that hold a byte of [addr, addr + size)
BlocksOf(addr, size) == {v \div DIRTY_BLOCK_SIZE : v \in Range(addr, size)}

\* the blocks written since the last reset, as script keeps them: one set per
\* write, holding the blocks that write was the first to touch
Written == UNION {script[k] : k \in 1 .. Len(script)}

InitDirty ==
    /\ mmus = [w \in Names |->
                 IF w = "parent" THEN DirtyParent
                 ELSE IF w = "child" THEN fork(DirtyParent, ArenaOf("child"))
                 ELSE NewMmu(0, ArenaOf(w))]
    /\ forked = TRUE
    /\ frozen = TRUE
    /\ unwritten = [w \in Names |-> {}]
    /\ pristine = [w \in Names |-> {}]
    /\ last = NoLast
    /\ steps = 0
    /\ crashed = FALSE
    /\ script = << >>
    /\ pc = "main"
    /\ idx = 0
    /\ resA = << >>
    /\ resB = << >>

dirtyVars == <<forked, frozen, unwritten, pristine, pc, idx, resA, resB>>

\* child.write_from(addr, buf, len(buf))
DirtyWrite(addr, buf) ==
    /\ CanStep
    /\ LET r == write_from(mmus["child"], addr, buf, Len(buf))
       IN /\ mmus' = Store(mmus, "child", r.mmu)
          /\ script' = IF r.ok /\ BlocksOf(addr, Len(buf)) \ Written # {}
                       THEN Append(script, BlocksOf(addr, Len(buf)) \ Written)
                       ELSE script
          /\ last' = [NoLast EXCEPT !.op = "write", !.who = "child", !.addr = addr,
                                    !.size = Len(buf), !.buf = buf,
                                    !.ok = r.ok, !.err = r.err, !.fault = r.fault,
                                    !.pre = mmus["child"]]
          /\ crashed' = ~r.ok
    /\ steps' = steps + 1
    /\ UNCHANGED dirtyVars

\* child.reset(&parent)
DirtyReset ==
    /\ CanStep
    /\ LET r == reset(mmus["child"], mmus["parent"])
       IN /\ mmus' = Store(mmus, "child", r.mmu)
          /\ script' = << >>
          /\ last' = [NoLast EXCEPT !.op = "reset", !.who = "child",
                                    !.ok = r.ok, !.err = r.err, !.pre = mmus["child"]]
          /\ crashed' = ~r.ok
    /\ steps' = steps + 1
    /\ UNCHANGED dirtyVars

NextDirty ==
    \/ \E addr \in DirtyAddrs, buf \in Bufs : DirtyWrite(addr, buf)
    \/ DirtyReset

SpecDirty == InitDirty /\ [][NextDirty]_vars

\* ---- a fork changes permissions and is reset -----------------------------
\* ranges whose permission the child changes: in the block of the parent's
\* written bytes, in the next block, in the block after the allocation
RollAddrs == {BASE_ALC, 2 * DIRTY_BLOCK_SIZE, 3 * DIRTY_BLOCK_SIZE}

RollSizes == {1, 2}

RollPerms == {PERM_READ, PERM_WRITE}

\* addresses the child writes
RollWrites == {BASE_ALC, 2 * DIRTY_BLOCK_SIZE}

InitRoll ==
    /\ mmus = [w \in Names |->
                 IF w = "parent" THEN ConcParent
                 ELSE IF w = "child" THEN fork(ConcParent, ArenaOf("child"))
                 ELSE NewMmu(0, ArenaOf(w))]
    /\ forked = TRUE
    /\ frozen = TRUE
    /\ unwritten = [w \in Names |-> {}]
    /\ pristine = [w \in Names |-> {}]
    /\ last = NoLast
    /\ steps = 0
    /\ crashed = FALSE
    /\ script = << >>
    /\ pc = "main"
    /\ idx = 0
    /\ resA = << >>
    /\ resB = << >>

\* child.reset(&parent); last keeps the call that came before the reset
RollReset ==
    /\ CanStep /\ forked
    /\ LET r == reset(mmus["child"], mmus["parent"])
       IN /\ mmus' = Store(mmus, "child", r.mmu)
          /\ last' = [NoLast EXCEPT !.op = "reset", !.who = "child",
                                    !.ok = r.ok, !.err = r.err, !.pre = mmus["child"],
                                    !.prev = IF last.ok THEN last.op ELSE "none",
                                    !.addr = last.addr, !.size = last.size,
                                    !.perm = last.perm]
          /\ crashed' = ~r.ok
    /\ frozen' = (frozen /\ mmus'["parent"] = mmus["parent"])
    /\ steps' = steps + 1
    /\ UNCHANGED <<forked, unwritten, pristine>>
    /\ UNCHANGED replayVars

NextRoll ==
    \/ \E addr \in RollAddrs, size \in RollSizes, perm \in RollPerms :
          SetPermission("child", addr, size, perm)
    \/ \E addr \in RollWrites, buf \in Bufs : Write("child", addr, buf)
    \/ RollReset

SpecRoll == InitRoll /\ [][NextRoll]_vars

\* ---- reads into a caller's buffer ----------------------------------------
\* a read that copies each byte as soon as its permission was checked
read_call_partial(m, addr, buf, exp_perms) ==
    LET r == read_into_perms(m, addr, Len(buf), exp_perms)
    IN [ok |-> r.ok, err |-> r.err, fault |-> r.fault, mmu |-> m,
        buf |-> IF r.ok THEN r.out
                ELSE IF r.err = "ReadDenied"
                THEN [i \in 1 .. Len(buf) |->
                         IF addr + i - 1 < r.fault THEN m.memory[addr + i - 1] ELSE buf[i]]
                ELSE buf]

\* read_into_perms(addr, buf, exp_perms) as its caller sees it: the MMU and
\* the buffer after the call.  The copy loop runs after the permission loop
\* has passed every byte; a panic leaves buf as it was.
read_call(m, addr, buf, exp_perms) ==
    LET r == read_into_perms(m, addr, Len(buf), exp_perms)
    IN [ok |-> r.ok, err |-> r.err, fault |-> r.fault, mmu |-> m,
        buf |-> IF r.ok THEN r.out ELSE buf]

\* the caller's buffers: one or two bytes holding a value no write stores
CallerBufs == {[i \in 1 .. n |-> MaxByte + 1] : n \in MaskLens}

\* addresses read: the first written bytes, the last byte of the arena
CallAddrs == MaskAddrs \cup {ArenaSize - 1}

InitCall ==
    /\ \E g \in GoldenMask :
          mmus = [w \in Names |-> IF w = "parent" THEN g ELSE NewMmu(0, ArenaOf(w))]
    /\ forked = FALSE
    /\ frozen = FALSE
    /\ unwritten = [w \in Names |-> {}]
    /\ pristine = [w \in Names |-> {}]
    /\ last = NoLast
    /\ steps = 0
    /\ crashed = FALSE
    /\ script = << >>
    /\ pc = "main"
    /\ idx = 0
    /\ resA = << >>
    /\ resB = << >>

\* read_into_perms(addr, buf, mask); resA is the caller's buffer afterwards
ReadCall(addr, buf, mask) ==
    /\ CanStep
    /\ LET r == read_call(mmus["parent"], addr, buf, mask)
       IN /\ mmus' = Store(mmus, "parent", r.mmu)
          /\ resA' = r.buf
          /\ last' = [NoLast EXCEPT !.op = "read_call", !.who = "parent", !.addr = addr,
                                    !.size = Len(buf), !.buf = buf, !.perm = mask,
                                    !.ok = r.ok, !.err = r.err, !.fault = r.fault,
                                    !.pre = mmus["parent"]]
          /\ crashed' = ~r.ok
    /\ steps' = steps + 1
    /\ UNCHANGED <<forked, frozen, unwritten, pristine, script, pc, idx, resB>>

NextCall ==
    \/ \E addr \in MaskAddrs, perm \in Masks : SetPermission("parent", addr, 1, perm)
    \/ \E addr \in CallAddrs, buf \in CallerBufs, mask \in Masks : ReadCall(addr, buf, mask)

SpecCall == InitCall /\ [][NextCall]_vars

\* ---- the ranges handed out by allocate -----------------------------------
\* script keeps, for each MMU, the ranges its allocate calls returned, the
\* ones inherited through fork included
NoRanges == [w \in Names |-> << >>]

InitHand ==
    /\ mmus = [w \in Names |-> IF w = "parent" THEN Fresh ELSE NewMmu(0, ArenaOf(w))]
    /\ forked = FALSE
    /\ frozen = FALSE
    /\ unwritten = [w \in Names |-> {}]
    /\ pristine = [w \in Names |-> {}]
    /\ last = NoLast
    /\ steps = 0
    /\ crashed = FALSE
    /\ script = NoRanges
    /\ pc = "main"
    /\ idx = 0
    /\ resA = << >>
    /\ resB = << >>

handVars == <<unwritten, pristine, pc, idx, resA, resB>>

\* base = m.allocate(size)
HandAllocate(who, size) ==
    /\ CanStep /\ Active(who)
    /\ LET r == allocate(mmus[who], size)
       IN /\ mmus' = Store(mmus, who, r.mmu)
          /\ script' = IF r.ok
                       THEN [script EXCEPT ![who] = Append(@, [base |-> r.base, size |-> size])]
                       ELSE script
          /\ last' = [NoLast EXCEPT !.op = "allocate", !.who = who, !.size = size,
                                    !.ok = r.ok, !.err = r.err, !.base = r.base,
                                    !.pre = mmus[who]]
          /\ crashed' = ~r.ok
    /\ steps' = steps + 1
    /\ UNCHANGED <<forked, frozen>>
    /\ UNCHANGED handVars

\* child = parent.fork(): the child inherits the parent's allocations
HandFork ==
    /\ CanStep
    /\ mmus' = Store(mmus, "child", fork(mmus["parent"], ArenaOf("child")))
    /\ script' = [script EXCEPT !["child"] = script["parent"]]
    /\ forked' = TRUE
    /\ frozen' = TRUE
    /\ last' = [NoLast EXCEPT !.op = "fork", !.who = "child", !.pre = mmus["parent"]]
    /\ steps' = steps + 1
    /\ UNCHANGED crashed
    /\ UNCHANGED handVars

\* child.reset(&parent)
HandReset ==
    /\ CanStep /\ forked
    /\ LET r == reset(mmus["child"], mmus["parent"])
       IN /\ mmus' = Store(mmus, "child", r.mmu)
          /\ last' = [NoLast EXCEPT !.op = "reset", !.who = "child",
                                    !.ok = r.ok, !.err = r.err, !.pre = mmus["child"]]
          /\ crashed' = ~r.ok
    /\ steps' = steps + 1
    /\ UNCHANGED <<forked, frozen, script>>
    /\ UNCHANGED handVars

NextHand ==
    \/ \E who \in {"parent", "child"}, size \in WordSizes : HandAllocate(who, size)
    \/ HandFork
    \/ HandReset

SpecHand == InitHand /\ [][NextHand]_vars

\* ---- properties --------------------------------------------------------
child == mmus["child"]

parent == mmus["parent"]

\* block b is listed in m.dirty
InDirty(m, b) == \E k \in 1 .. Len(m.dirty) : m.dirty[k] = b

\* bit b of m.dirty_bitmap is set
BitmapBit(m, b) ==
    /\ (b \div BITMAP_WORD) \in DOMAIN m.dirty_bitmap
    /\ WordBit(m.dirty_bitmap[b \div BITMAP_WORD], b % BITMAP_WORD)

\* block indices a dirty list or bitmap of the model can hold
Blocks == 0 .. (ArenaSize \div DIRTY_BLOCK_SIZE) + BITMAP_WORD

\* the operation that led here was a successful write
Wrote == last.op = "write" /\ last.ok

\* C1: after child.reset(parent), with the parent not mutated since the fork
\* and whatever the child did in between, the child's dirty list is empty and
\* every byte below the child's cur_alc has the parent's memory and permission.
C1_ResetRestoresBelowCurAlc ==
    (last.op = "reset" /\ last.ok /\ frozen) =>
        /\ child.dirty = << >>
        /\ \A v \in DOMAIN child.memory :
              v < child.cur_alc =>
                 /\ child.memory[v] = parent.memory[v]
                 /\ child.permissions[v] = parent.permissions[v]

\* C2: after a successful write of at least one byte, every block of
\* [addr / B, (addr + len - 1) / B] is in dirty with its bitmap bit set, and
\* no block outside that range was added.
C2_WriteMarksEveryBlock ==
    (Wrote /\ last.size >= 1) =>
        LET m == mmus[last.who]
            first == last.addr \div DIRTY_BLOCK_SIZE
            final == (last.addr + last.size - 1) \div DIRTY_BLOCK_SIZE
        IN /\ \A b \in first .. final : InDirty(m, b) /\ BitmapBit(m, b)
           /\ \A b \in Blocks :
                 (InDirty(m, b) /\ ~InDirty(last.pre, b)) => b \in first .. final

\* C3: a write that fails leaves memory, permissions, dirty, dirty_bitmap and
\* cur_alc of the MMU exactly as they were before the call.
C3_FailedWriteHasNoEffect ==
    (last.op = "write" /\ ~last.ok) =>
        /\ mmus[last.who].memory = last.pre.memory
        /\ mmus[last.who].permissions = last.pre.permissions
        /\ mmus[last.who].dirty = last.pre.dirty
        /\ mmus[last.who].dirty_bitmap = last.pre.dirty_bitmap
        /\ mmus[last.who].cur_alc = last.pre.cur_alc

\* a write of two or more bytes was denied because of its last byte only
C3_Witness ==
    /\ last.op = "write" /\ last.err = "WriteDenied"
    /\ last.size >= 2
    /\ last.fault = last.addr + last.size - 1
    /\ steps >= 1

\* C8: after a successful write every byte of the range that had RAW has
\* READ, RAW and WRITE; bytes of the range without RAW and all bytes outside
\* the range keep their permission byte.
C8_RawPromotion ==
    Wrote =>
        \A i \in DOMAIN last.pre.permissions :
            LET before == last.pre.permissions[i]
                after == mmus[last.who].permissions[i]
            IN IF i \in Range(last.addr, last.size) /\ HasBit(before, PERM_RAW)
               THEN HasBit(after, PERM_READ) /\ HasBit(after, PERM_RAW)
                    /\ HasBit(after, PERM_WRITE)
               ELSE after = before

\* a successful write covered a RAW byte that was not readable and a byte
\* without RAW
C8_Witness ==
    /\ Wrote
    /\ \E i \in Range(last.addr, last.size) :
          HasBit(last.pre.permissions[i], PERM_RAW)
          /\ ~HasBit(last.pre.permissions[i], PERM_READ)
          /\ HasBit(mmus[last.who].permissions[i], PERM_READ)
    /\ \E i \in Range(last.addr, last.size) : ~HasBit(last.pre.permissions[i], PERM_RAW)

\* C4 as stated: a read whose range includes a byte handed out by allocate
\* and not since covered by a successful write fails with ReadDenied.
C4_UnwrittenReadDenied ==
    (last.op = "read" /\ Range(last.addr, last.size) \cap unwritten[last.who] # {}) =>
        (~last.ok /\ last.err = "ReadDenied")

\* C4 amended: a read inside the arena whose range includes a byte handed out
\* by allocate and since then neither covered by a successful write, nor
\* given a permission by set_permission, nor restored by reset, fails with
\* ReadDenied; allocate on a fresh MMU returns BASE_ALC.
C4_PristineReadDenied ==
    /\ (last.op = "read" /\ last.addr + last.size <= MemLen(last.pre)
        /\ Range(last.addr, last.size) \cap pristine[last.who] # {}) =>
           (~last.ok /\ last.err = "ReadDenied")
    /\ (last.op = "allocate" /\ last.ok /\ last.pre = Fresh) => last.base = BASE_ALC

\* a fresh MMU allocated MaxAlloc bytes at BASE_ALC and the read of those
\* bytes that followed at once was denied
C4_Witness ==
    /\ last.op = "read" /\ last.err = "ReadDenied"
    /\ last.pre = allocate(Fresh, MaxAlloc).mmu
    /\ last.addr = BASE_ALC /\ last.size = MaxAlloc
    /\ Range(last.addr, last.size) \subseteq pristine[last.who]
    /\ steps = 2

MutatingOps == {"write", "allocate", "set_permission", "reset"}

\* C5: once the child is forked, no operation on the child changes any field
\* of the parent and no operation on the parent changes any field of the child.
C5_ForkIsolation ==
    [][(forked /\ last'.op \in MutatingOps) =>
          /\ (last'.who = "child" => mmus'["parent"] = mmus["parent"])
          /\ (last'.who = "parent" => mmus'["child"] = mmus["child"])]_vars

\* the child overwrote bytes the parent had written before the fork; the
\* parent still holds its own bytes, readable
C5_Witness ==
    /\ Wrote /\ last.who = "child" /\ last.size >= 1
    /\ frozen
    /\ \A i \in Range(last.addr, last.size) :
          /\ HasBit(parent.permissions[i], PERM_READ)
          /\ parent.memory[i] # 0
          /\ child.memory[i] # parent.memory[i]
    /\ read_into(parent, last.addr, last.size).ok

\* C7: a read of the same address and length right after a successful write
\* to bytes that all had WRITE and READ or RAW succeeds and returns the bytes
\* written.
C7_WriteReadRoundTrip ==
    (/\ last.op = "read" /\ last.wr.valid
     /\ \A i \in Range(last.addr, last.size) :
           /\ HasBit(last.wr.pre.permissions[i], PERM_WRITE)
           /\ (HasBit(last.wr.pre.permissions[i], PERM_READ)
               \/ HasBit(last.wr.pre.permissions[i], PERM_RAW)))
    => (last.ok /\ last.out = last.wr.buf)

\* bytes that were RAW and unreadable were written and read back at once
C7_Witness ==
    /\ last.op = "read" /\ last.wr.valid /\ last.ok
    /\ last.size >= 2
    /\ last.out = last.wr.buf
    /\ \A i \in Range(last.addr, last.size) :
          /\ HasBit(last.wr.pre.permissions[i], PERM_RAW)
          /\ ~HasBit(last.wr.pre.permissions[i], PERM_READ)

\* the dirty list and the dirty bitmap of m agree
DirtyAgree(m) ==
    /\ \A b \in Blocks : InDirty(m, b) <=> BitmapBit(m, b)
    /\ \A j, k \in 1 .. Len(m.dirty) : m.dirty[j] = m.dirty[k] => j = k
    /\ \A w \in DOMAIN m.dirty_bitmap : m.dirty_bitmap[w] < Pow2(BITMAP_WORD)

\* C9: after every operation that completes, a block index is in dirty iff
\* its bitmap bit is set, and it is listed once; after reset both are empty.
C9_DirtyListMatchesBitmap ==
    ~(last.op = "reset" /\ ~last.ok) =>
        /\ \A who \in {"parent", "child"} : DirtyAgree(mmus[who])
        /\ (last.op = "reset" =>
               /\ child.dirty = << >>
               /\ \A w \in DOMAIN child.dirty_bitmap : child.dirty_bitmap[w] = 0)

\* a reset completed on a child with two dirty blocks sharing a bitmap word
C9_Witness ==
    /\ last.op = "reset" /\ last.ok
    /\ \E j, k \in 1 .. Len(last.pre.dirty) :
          /\ last.pre.dirty[j] # last.pre.dirty[k]
          /\ last.pre.dirty[j] \div BITMAP_WORD = last.pre.dirty[k] \div BITMAP_WORD
    /\ child.dirty = << >>

\* C10: fork returns an MMU of the parent's size with the parent's memory,
\* permissions and cur_alc, an empty dirty list and an all-zero bitmap.
C10_ForkCopiesParent ==
    last.op = "fork" =>
        /\ MemLen(child) = MemLen(last.pre)
        /\ DOMAIN child.permissions = DOMAIN last.pre.permissions
        /\ child.memory = last.pre.memory
        /\ child.permissions = last.pre.permissions
        /\ child.cur_alc = last.pre.cur_alc
        /\ child.dirty = << >>
        /\ DOMAIN child.dirty_bitmap = DOMAIN last.pre.dirty_bitmap
        /\ \A w \in DOMAIN child.dirty_bitmap : child.dirty_bitmap[w] = 0

\* a parent with dirty blocks, written memory and allocations was forked
C10_Witness ==
    /\ last.op = "fork"
    /\ Len(last.pre.dirty) >= 2
    /\ last.pre.cur_alc > BASE_ALC
    /\ \E v \in DOMAIN last.pre.memory : last.pre.memory[v] # 0

\* C11: a reset of the child right after its fork completes and changes no
\* field of the child: memory, permissions, cur_alc, dirty and dirty_bitmap
\* are as the fork left them.
C11_ForkThenResetIsNoOp ==
    (last.op = "reset" /\ last.prev = "fork") =>
        /\ last.ok
        /\ child.memory = last.pre.memory
        /\ child.permissions = last.pre.permissions
        /\ child.cur_alc = last.pre.cur_alc
        /\ child.dirty = last.pre.dirty
        /\ child.dirty_bitmap = last.pre.dirty_bitmap

\* the fork of a parent that has allocations, written bytes and dirty blocks
\* was reset at once
C11_Witness ==
    /\ last.op = "reset" /\ last.prev = "fork" /\ last.ok
    /\ parent.cur_alc > BASE_ALC
    /\ parent.dirty # << >>
    /\ \E v \in DOMAIN parent.memory : parent.memory[v] # 0
    /\ child.memory = parent.memory

C13_AllocatorBoundOnWrites ==
    last.op = "write" =>
        /\ (/\ last.addr + last.size = last.pre.cur_alc
            /\ \A i \in Range(last.addr, last.size) :
                  HasBit(last.pre.permissions[i], PERM_WRITE))
           => last.ok
        /\ (/\ last.addr + last.size = last.pre.cur_alc + 1
            /\ last.addr + last.size <= MemLen(last.pre))
           => (~last.ok /\ last.err = "UnallocatedWrite")

\* a write of bytes that all have WRITE ended one byte past cur_alc and was
\* refused as unallocated
C13_Witness ==
    /\ last.op = "write" /\ last.err = "UnallocatedWrite"
    /\ last.size >= 1
    /\ last.addr + last.size = last.pre.cur_alc + 1
    /\ \A i \in Range(last.addr, last.size) :
          HasBit(last.pre.permissions[i], PERM_WRITE)
    /\ mmus[last.who] = last.pre

\* C14: a read fails with OutOfBounds when addr + len exceeds the arena and
\* with UnallocatedRead when addr + len exceeds cur_alc inside the arena,
\* whatever the permissions of its bytes.
C14_ReadChecksAllocatorBound ==
    last.op = "read" =>
        /\ (last.addr + last.size > MemLen(last.pre))
           => (~last.ok /\ last.err = "OutOfBounds")
        /\ (/\ last.addr + last.size <= MemLen(last.pre)
            /\ last.addr + last.size > last.pre.cur_alc)
           => (~last.ok /\ last.err = "UnallocatedRead")

\* C15: a write of length 0 succeeds at every address and leaves memory,
\* permissions, dirty, dirty_bitmap and cur_alc as they were.
C15_ZeroLengthWriteIsNoOp ==
    (last.op = "write" /\ last.size = 0) =>
        /\ last.ok
        /\ mmus[last.who] = last.pre

\* size rounded up to the next multiple of the alignment, in the host word
RoundUp(size) ==
    (((size + ALIGN_MASK) \div (ALIGN_MASK + 1)) * (ALIGN_MASK + 1)) % WORD_MOD

\* C16: a successful allocate returns the cur_alc of before the call, that
\* base is a multiple of the alignment and cur_alc afterwards is base plus the
\* size rounded up to the alignment (host word arithmetic); cur_alc of every
\* MMU is a multiple of the alignment in every state.
C16_AllocateAligned ==
    /\ \A who \in Names : mmus[who].cur_alc % (ALIGN_MASK + 1) = 0
    /\ (last.op = "allocate" /\ last.ok) =>
          /\ last.base = last.pre.cur_alc
          /\ last.base % (ALIGN_MASK + 1) = 0
          /\ mmus[last.who].cur_alc = Add(last.base, RoundUp(last.size))

\* an allocation of an odd size succeeded after an earlier allocation and
\* moved cur_alc by the size and its padding
C16_Witness ==
    /\ last.op = "allocate" /\ last.ok
    /\ last.size % (ALIGN_MASK + 1) # 0
    /\ last.base > BASE_ALC
    /\ mmus[last.who].cur_alc = last.base + last.size + 1

\* C17: allocate fails with OutOfArena exactly when cur_alc plus the aligned
\* size, as the host computes them, is at or beyond the arena size, and an
\* allocate that fails leaves cur_alc and the permissions as they were.
C17_OutOfArenaExactly ==
    last.op = "allocate" =>
        /\ (~last.ok /\ last.err = "OutOfArena")
              <=> (Add(last.pre.cur_alc, RoundUp(last.size)) >= MemLen(last.pre))
        /\ ~last.ok =>
              /\ mmus[last.who].cur_alc = last.pre.cur_alc
              /\ mmus[last.who].permissions = last.pre.permissions

\* C18: cur_alc of every MMU in use lies between the allocator base and the
\* arena size, and no operation makes it smaller.
C18_CurAlcInRange ==
    /\ \A who \in {"parent", "child"} :
          Active(who) =>
             /\ mmus[who].cur_alc >= BASE_ALC
             /\ mmus[who].cur_alc <= MemLen(mmus[who])
    /\ (last.op \in {"allocate", "reset", "write", "read"}) =>
          mmus[last.who].cur_alc >= last.pre.cur_alc

\* C19 as stated: allocate(0) returns cur_alc and changes nothing.
C19_AllocateZeroIsNoOp ==
    (last.op = "allocate" /\ last.size = 0) =>
        /\ last.ok
        /\ last.base = last.pre.cur_alc
        /\ mmus[last.who] = last.pre

\* C19 amended: allocate(0) changes nothing; it returns cur_alc when cur_alc
\* is below the arena size and fails with OutOfArena otherwise.
C19_AllocateZeroInsideArena ==
    (last.op = "allocate" /\ last.size = 0) =>
        /\ mmus[last.who] = last.pre
        /\ last.base = last.pre.cur_alc
        /\ last.ok <=> (last.pre.cur_alc < MemLen(last.pre))
        /\ ~last.ok => last.err = "OutOfArena"

\* allocate(0) returned on an MMU that has an allocation and a dirty block
C19_Witness ==
    /\ last.op = "allocate" /\ last.size = 0 /\ last.ok
    /\ last.pre.cur_alc > BASE_ALC
    /\ last.pre.dirty # << >>
    /\ last.base = last.pre.cur_alc

\* C20: a successful allocate(size) gives WRITE|RAW to exactly the bytes
\* [base, base+size) of the arena and leaves every other permission byte as it
\* was; a byte at or above the allocator base that no allocation covered has
\* no permission, and a write or read that lies below cur_alc and touches
\* such a byte fails with WriteDenied or ReadDenied.
C20_GuardBands ==
    /\ (last.op = "allocate" /\ last.ok) =>
          \A i \in DOMAIN last.pre.permissions :
              mmus[last.who].permissions[i] =
                 IF last.base <= i /\ i < last.base + last.size
                 THEN BitOr(PERM_RAW, PERM_WRITE)
                 ELSE last.pre.permissions[i]
    /\ (/\ last.op \in {"write", "read"}
        /\ last.addr + last.size <= last.pre.cur_alc
        /\ last.addr + last.size <= MemLen(last.pre)
        /\ \E i \in Range(last.addr, last.size) : last.pre.permissions[i] = 0)
       => (~last.ok /\ last.err = (IF last.op = "write" THEN "WriteDenied" ELSE "ReadDenied"))

\* C21: a successful set_permission(addr, size, perm) leaves perm in exactly
\* the permission bytes addr <= i < addr + size (the sum as the host word
\* holds it) and changes nothing else: the other permission bytes, memory,
\* dirty, dirty_bitmap and cur_alc are as before.
C21_SetPermissionFrame ==
    (last.op = "set_permission" /\ last.ok) =>
        LET m == mmus[last.who]
            end == Add(last.addr, last.size)
        IN /\ \A i \in DOMAIN m.permissions :
                 m.permissions[i] = IF last.addr <= i /\ i < end
                                    THEN last.perm ELSE last.pre.permissions[i]
           /\ m.memory = last.pre.memory
           /\ m.dirty = last.pre.dirty
           /\ m.dirty_bitmap = last.pre.dirty_bitmap
           /\ m.cur_alc = last.pre.cur_alc

\* a set_permission on an MMU with written memory and a dirty block replaced
\* the permission of two bytes by a different value
C21_Witness ==
    /\ last.op = "set_permission" /\ last.ok
    /\ last.size = 2
    /\ last.pre.dirty # << >>
    /\ \A i \in last.addr .. last.addr + 1 :
          /\ last.pre.permissions[i] # last.perm
          /\ mmus[last.who].permissions[i] = last.perm
    /\ \E i \in DOMAIN last.pre.memory : last.pre.memory[i] # 0

\* C22: set_permission(addr, size, perm) fails with OutOfBounds and changes
\* no permission byte whenever the true sum addr + size (not the wrapped one)
\* exceeds the arena size.
C22_OutOfBoundsTrueSum ==
    (last.op = "set_permission" /\ last.addr + last.size > MemLen(last.pre)) =>
        /\ ~last.ok
        /\ last.err = "OutOfBounds"
        /\ mmus[last.who].permissions = last.pre.permissions

\* C23: read_with(addr, buf, required_mask) succeeds only if every byte of
\* the range has all the bits of the mask: (perm & mask) = mask.
C23_ReadWithAllBits ==
    (last.op = "read_with" /\ last.ok) =>
        \A i \in last.addr .. last.addr + last.size - 1 :
            BitAnd(last.pre.permissions[i], last.perm) = last.perm

\* the bytes [addr, addr + size) of m lie in the arena and have exactly EXEC
ExecOnly(m, addr, size) ==
    /\ size > 0
    /\ addr + size <= MemLen(m)
    /\ \A i \in addr .. addr + size - 1 : m.permissions[i] = PERM_EXEC

\* C24: on bytes whose permission is exactly EXEC, read fails with ReadDenied,
\* while read_with under the mask EXEC succeeds and returns the stored bytes.
C24_ExecOnlyFetch ==
    /\ (last.op = "read" /\ ExecOnly(last.pre, last.addr, last.size)) =>
          ~last.ok /\ last.err = "ReadDenied"
    /\ (last.op = "read_with" /\ last.perm = PERM_EXEC
        /\ ExecOnly(last.pre, last.addr, last.size)) =>
          /\ last.ok
          /\ last.out = [i \in 1 .. last.size |-> last.pre.memory[last.addr + i - 1]]

\* read_with under EXEC returned two written bytes that a read is refused
C24_Witness ==
    /\ last.op = "read_with" /\ last.perm = PERM_EXEC /\ last.ok
    /\ ExecOnly(last.pre, last.addr, last.size)
    /\ last.out = <<2, 3>>
    /\ read_into(mmus[last.who], last.addr, last.size).err = "ReadDenied"

\* the first section of the list is being loaded, or was the only one
FirstSection == idx = 1

\* C25: on a new MMU, loading a section that lies inside the arena
\* (set_permission WRITE, write of the file bytes, write of the zero padding,
\* set_permission to the final permission) completes without error and leaves
\* the file bytes followed by zeros in memory, every permission byte of the
\* range being the final permission.
C25_LoaderContract ==
    (FirstSection /\ script[1].virt_addr + script[1].mem_size <= ArenaSize) =>
        /\ ~crashed
        /\ (last.op = "load_final" /\ pc = "loaded") =>
              \A i \in 0 .. script[1].mem_size - 1 :
                 /\ parent.memory[script[1].virt_addr + i] =
                       IF i < Len(script[1].section_data)
                       THEN script[1].section_data[i + 1] ELSE 0
                 /\ parent.permissions[script[1].virt_addr + i] = script[1].permissions

\* C26: reset against the parent the child was forked from restores every
\* dirty block b over [b*B, min(b*B + B, arena_size)) and completes without a
\* host fault, also when the arena size is not a multiple of B and the last,
\* partial block is dirty.
C26_ResetPartialBlock ==
    (last.op = "reset" /\ frozen) =>
        /\ last.ok
        /\ \A v \in DirtyBytes(last.pre) :
              /\ child.memory[v] = parent.memory[v]
              /\ child.permissions[v] = parent.permissions[v]

\* C27: reset against an MMU whose arena size differs from the child's ends in
\* the fatal error state, whatever the dirty list holds, and restores no byte.
C27_ResetSizeMismatch ==
    (last.op = "reset_other" /\ MemLen(mmus["twin"]) # MemLen(last.pre)) =>
        /\ ~last.ok
        /\ child.memory = last.pre.memory
        /\ child.permissions = last.pre.permissions

\* the MMU of worker w before its reset
Before(w) == IF w = "child" THEN resA[1] ELSE resB[1]

\* C28: forks of one parent reset against it concurrently, their block copies
\* interleaved in any order: no statement of a reset changes a field of the
\* parent, and each fork ends with an empty dirty list and the memory,
\* permissions and bitmap it has after resetting alone.
C28_ConcurrentResets ==
    /\ parent = script[1]
    /\ \A w \in Workers : pc[w] # "crashed"
    /\ \A w \in Workers :
          pc[w] = "done" =>
             LET alone == reset(Before(w), script[1])
             IN /\ alone.ok
                /\ mmus[w].dirty = << >>
                /\ mmus[w].memory = alone.mmu.memory
                /\ mmus[w].permissions = alone.mmu.permissions
                /\ mmus[w].dirty_bitmap = alone.mmu.dirty_bitmap

\* one fork has finished its reset of two blocks, which changed its memory,
\* while the other is between the two copies of a block
C28_Witness ==
    /\ pc["child"] = "done" /\ pc["twin"] = "permissions"
    /\ Len(resA[1].dirty) = 2
    /\ mmus["child"].memory # resA[1].memory
    /\ mmus["child"].memory = parent.memory
    /\ mmus["twin"].memory # resB[1].memory

\* C29: reset leaves the child's cur_alc as it was, and leaves every byte of
\* memory and permissions outside the blocks listed in dirty as it was.
C29_ResetFrame ==
    (last.op = "reset") =>
        /\ child.cur_alc = last.pre.cur_alc
        /\ \A v \in DOMAIN child.memory :
              v \notin DirtyBytes(last.pre) =>
                 /\ child.memory[v] = last.pre.memory[v]
                 /\ child.permissions[v] = last.pre.permissions[v]

\* a reset of a child that had allocated and written: its cursor stays ahead
\* of the parent's, a listed block was restored, and a byte outside the listed
\* blocks keeps a permission the parent does not have
C29_Witness ==
    /\ last.op = "reset" /\ last.ok
    /\ last.pre.dirty # << >>
    /\ child.cur_alc > parent.cur_alc
    /\ child.memory # last.pre.memory
    /\ \E v \in DOMAIN child.memory :
          /\ v \notin DirtyBytes(last.pre)
          /\ child.permissions[v] # parent.permissions[v]

\* number of blocks of an arena: ceil(arena_size / B)
NumBlocks(m) == (MemLen(m) + DIRTY_BLOCK_SIZE - 1) \div DIRTY_BLOCK_SIZE

\* p is a prefix of q
IsPrefix(p, q) == Len(p) <= Len(q) /\ \A k \in 1 .. Len(p) : q[k] = p[k]

\* the write that first touched block b, as a position in script
FirstWrite(b) == CHOOSE k \in 1 .. Len(script) : b \in script[k]

\* C30: between two resets the dirty list only grows by appending: a write
\* keeps the entries it found, in their order, adds only blocks that were not
\* listed, and adds nothing when it starts in a block already listed; every
\* entry is listed once and is below ceil(arena_size / B); the entries are in
\* the order in which their blocks were first written.
C30_DirtyListAppendOnly ==
    /\ \A w \in {"parent", "child"} :
          /\ \A j, k \in 1 .. Len(mmus[w].dirty) :
                mmus[w].dirty[j] = mmus[w].dirty[k] => j = k
          /\ \A k \in 1 .. Len(mmus[w].dirty) : mmus[w].dirty[k] < NumBlocks(mmus[w])
    /\ \A j, k \in 1 .. Len(child.dirty) :
          (j < k /\ child.dirty[j] \in Written /\ child.dirty[k] \in Written) =>
              FirstWrite(child.dirty[j]) <= FirstWrite(child.dirty[k])
    /\ (last.op = "write") =>
          LET m == mmus[last.who]
          IN /\ IsPrefix(last.pre.dirty, m.dirty)
             /\ \A k \in Len(last.pre.dirty) + 1 .. Len(m.dirty) :
                   ~InDirty(last.pre, m.dirty[k])
             /\ InDirty(last.pre, last.addr \div DIRTY_BLOCK_SIZE) =>
                   Len(m.dirty) = Len(last.pre.dirty)

\* C31: a forked child calls set_permission(addr, n, p) and is then reset
\* against its parent: where the blocks of [addr, addr + n) are not listed in
\* the child's dirty list, the permissions of the range are still p after the
\* reset, not the parent's.
C31_ResetKeepsSetPermission ==
    (last.op = "reset" /\ last.ok /\ last.prev = "set_permission"
     /\ \A v \in Range(last.addr, last.size) : v \notin DirtyBytes(last.pre)) =>
        \A v \in Range(last.addr, last.size) : child.permissions[v] = last.perm

\* the child wrote a block, changed the permission of two bytes of another
\* block to a value the parent does not have there, and was reset: the
\* written block is restored and the two bytes keep the new permission
C31_Witness ==
    /\ last.op = "reset" /\ last.ok /\ last.prev = "set_permission"
    /\ last.size = 2
    /\ last.pre.dirty # << >>
    /\ child.memory # last.pre.memory
    /\ \A v \in Range(last.addr, last.size) :
          /\ v \notin DirtyBytes(last.pre)
          /\ child.permissions[v] = last.perm
          /\ parent.permissions[v] # last.perm

\* C32: a read or read_with that fails leaves the caller's buffer as it was,
\* and every read, failed or not, leaves memory, permissions, dirty,
\* dirty_bitmap and cur_alc as they were.
C32_ReadsArePure ==
    (last.op = "read_call") =>
        /\ mmus[last.who] = last.pre
        /\ ~last.ok => resA = last.buf
        /\ last.ok => resA = [i \in 1 .. last.size |-> last.pre.memory[last.addr + i - 1]]

\* a read of two bytes was refused at its second byte, the first byte being
\* readable and holding a written value: the buffer still has its old bytes
C32_Witness ==
    /\ last.op = "read_call" /\ ~last.ok /\ last.err = "ReadDenied"
    /\ last.size = 2
    /\ last.fault = last.addr + 1
    /\ last.pre.memory[last.addr] # 0
    /\ last.pre.dirty # << >>
    /\ resA = last.buf

\* the error a write or a read reports for a range past the allocator bound
Unallocated(op) == IF op = "write" THEN "UnallocatedWrite" ELSE "UnallocatedRead"

\* the permission bit a write or a read requires
Required(op) == IF op = "write" THEN PERM_WRITE ELSE PERM_READ

\* C33: in write and read the arena bound is checked before the allocator
\* bound, and the allocator bound before the permissions: a range outside the
\* arena reports OutOfBounds, a range inside the arena and past cur_alc reports
\* UnallocatedWrite or UnallocatedRead even when its bytes lack the permission,
\* and a permission fault names the lowest byte lacking the bit.
C33_ErrorPrecedence ==
    (last.op \in {"write", "read"}) =>
        LET end == last.addr + last.size
        IN /\ end > MemLen(last.pre) => last.err = "OutOfBounds"
           /\ (end <= MemLen(last.pre) /\ end > last.pre.cur_alc) =>
                 last.err = Unallocated(last.op)
           /\ last.err \in {"WriteDenied", "ReadDenied"} =>
                 last.fault = Min(Lacking(last.pre, last.addr, last.size,
                                          Required(last.op)))

\* C34: the ranges [base, base + size) returned by the successful allocate
\* calls of one MMU, the ones inherited through fork included, are pairwise
\* disjoint, lie in [BASE_ALC, cur_alc) and inside the arena, also after a
\* reset.  (A state in which a panic has ended the program is not judged.)
C34_AllocationsDisjoint ==
    ~crashed =>
    \A w \in {"parent", "child"} :
       /\ \A k \in 1 .. Len(script[w]) :
             /\ BASE_ALC <= script[w][k].base
             /\ script[w][k].base + script[w][k].size <= mmus[w].cur_alc
             /\ script[w][k].base + script[w][k].size <= MemLen(mmus[w])
       /\ \A j, k \in 1 .. Len(script[w]) :
             j < k =>
                \/ script[w][j].base + script[w][j].size <= script[w][k].base
                \/ script[w][k].base + script[w][k].size <= script[w][j].base

\* C35: allocate never overwrites the permission of a byte that already has
\* a non-zero permission: a range that was given READ or READ|EXEC keeps it
\* over every later allocate.
C35_AllocateKeepsMappedBytes ==
    (last.op = "allocate" /\ last.ok) =>
        \A v \in DOMAIN last.pre.permissions :
            last.pre.permissions[v] # 0 =>
                mmus[last.who].permissions[v] = last.pre.permissions[v]

\* C36: for every size of the word range, the sizes for which size + 15 or
\* cur_alc + aligned(size) wraps included, a successful allocate(size) has all
\* the bytes [base, base + size) inside the arena, each with WRITE|RAW, and
\* cur_alc at or above base + size afterwards.
C36_AllocateWordRange ==
    (last.op = "allocate" /\ last.ok) =>
        LET m == mmus[last.who]
        IN /\ last.base + last.size <= MemLen(m)
           /\ \A v \in DOMAIN m.permissions :
                 (last.base <= v /\ v < last.base + last.size) =>
                     m.permissions[v] = BitOr(PERM_RAW, PERM_WRITE)
           /\ m.cur_alc >= last.base + last.size

\* C6: fork M, apply S, reset against M and apply S again: the fork ends with
\* the memory, the permissions and the operation results of a fresh fork of M
\* that applied S once.
C6_ReplayLaw ==
    pc = "done" =>
        /\ mmus["child"].memory = mmus["twin"].memory
        /\ mmus["child"].permissions = mmus["twin"].permissions
        /\ resA = resB

====
